---- MODULE Spec2Model ----
(***************************************************************************)
(* Model of ovotools/pytorch_tools.py: the MarginBaseLoss object, its      *)
(* constructor, classes_to_ids, l2_loss, mb_loss (one step per anchor of   *)
(* its loop), loss and the last_* accessors.                               *)
(*                                                                         *)
(* Tensors are functions over 0..n-1 (the source's zero-based indices).    *)
(* Real numbers are exact rationals <<num, den>> with den > 0, and         *)
(* <<0, 0>> is the float NaN.  Distances, alpha and beta are integers.     *)
(* The object is its attribute dictionary: DOMAIN obj is the set of        *)
(* attributes assigned so far, so reading a missing one is AttributeError. *)
(***************************************************************************)
EXTENDS Integers, Sequences, FiniteSets, TLC

VARIABLES
    env,     \* what the caller hands to the constructor: model, classes, params
    pc,      \* "new" | "idle" | "classes_to_ids" | "l2_loss" | "loss" | "mb_loss"
             \* | "loss_add" | "dead"
    obj,     \* the object's attribute dictionary (self.__dict__)
    frame,   \* locals of the running call of mb_loss or loss
    ret,     \* outcome of the last finished call: method, status, value
    calls    \* number of method calls started on the object

vars == <<env, pc, obj, frame, ret, calls>>

-----------------------------------------------------------------------------
(* Bounds of the model *)

MaxN == 4
MaxCalls == 2

(* Inputs *)

SpcVals == {1, 2, 3}
ClassSets == {{1}, {0, 2}}
LambdaVals == {0, 2}
Models == {[mb_loss_alpha |-> 1, mb_loss_beta |-> 2],
           [mb_loss_alpha |-> 0, mb_loss_beta |-> 1]}
LabelVals == {<<-1, 2>>, <<0, 1>>, <<1, 1>>, <<3, 2>>, <<2, 1>>}
EmbVecs == {<<0>>, <<4>>}

BatchSizes == 1..MaxN
SeqSizes == {2, 4}
SeqSpcVals == {2}
SeqModels == {[mb_loss_alpha |-> 1, mb_loss_beta |-> 2]}
SeqClassSets == {{1}}
SeqLabels == {<<1, 1>>, <<2, 1>>}

-----------------------------------------------------------------------------
(* Numbers *)

ignore_index == -100

\* the default of the parameter ignore_index of classes_to_ids
default_ignore_index == -100

NaN == <<0, 0>>

Abs(x) == IF x < 0 THEN -x ELSE x

Min(a, b) == IF a <= b THEN a ELSE b

RECURSIVE Gcd(_, _)
Gcd(a, b) == IF b = 0 THEN a ELSE Gcd(b, a % b)

\* float division num / den of two integers, den >= 0 (0 / 0 is NaN)
Div(num, den) ==
    IF den = 0 THEN NaN
    ELSE LET g == Gcd(Abs(num), den) IN <<num \div g, den \div g>>

IsNaN(a) == a[2] = 0

\* float addition
Add(a, b) ==
    IF IsNaN(a) \/ IsNaN(b) THEN NaN
    ELSE Div(a[1] * b[2] + b[1] * a[2], a[2] * b[2])

\* sum of f[0], ..., f[m-1]
RECURSIVE SumTo(_, _)
SumTo(f, m) == IF m = 0 THEN 0 ELSE f[m - 1] + SumTo(f, m - 1)

\* torch.sqrt on the perfect squares the integer embeddings produce
Sqrt(x) == CHOOSE r \in 0..x : r * r <= x /\ x < (r + 1) * (r + 1)

\* tensor.clamp(min=0)
Clamp0(x) == IF x < 0 THEN 0 ELSE x

-----------------------------------------------------------------------------
(* The attribute dictionary *)

Has(o, a) == a \in DOMAIN o

Set(o, a, v) == [x \in (DOMAIN o) \cup {a} |-> IF x = a THEN v ELSE o[x]]

NoAttrs == [x \in {} |-> 0]

NoFrame ==
    [method |-> "none", pred_class |-> <<>>, y_class |-> <<>>,
     n |-> 0, dim |-> 0, i_start |-> 0, i |-> 0, j |-> 0, k |-> 0,
     loss |-> 0, lhs |-> NaN]

NoRet == [method |-> "none", status |-> "none", val |-> <<>>]

Returned(m, v) == [method |-> m, status |-> "ok", val |-> v]

Raised(m, e) == [method |-> m, status |-> e, val |-> <<>>]

-----------------------------------------------------------------------------
(* __init__ *)

\* sorted(classes)
RECURSIVE SortedList(_)
SortedList(S) ==
    IF S = {} THEN <<>>
    ELSE LET m == CHOOSE x \in S : \A y \in S : x <= y
         IN <<m>> \o SortedList(S \ {m})

\* {v: i for i, v in enumerate(self.classes)}
ClassesDict(lst) ==
    [v \in {lst[p] : p \in 1..Len(lst)} |->
        (CHOOSE p \in 1..Len(lst) : lst[p] = v /\ \A q \in p + 1..Len(lst) : lst[q] # v) - 1]

\* the constructor's arguments
Envs(Ms, Cs, Ss) ==
    [model : Ms, classes : Cs,
     params : [samples_per_class : Ss, lambda_ : LambdaVals]]

InitWith(E) ==
    /\ env \in E
    /\ pc = "new"
    /\ obj = NoAttrs
    /\ frame = NoFrame
    /\ ret = NoRet
    /\ calls = 0

Init == InitWith(Envs(Models, ClassSets, SpcVals))

\* the assertion, were it to accept a class of one sample
SpcOkLoose(params) == params.samples_per_class >= 1

\* assert params.data.samples_per_class >= 2
SpcOk(params) == params.samples_per_class >= 2

\* MarginBaseLoss(model, classes, device, params)
MarginBaseLoss ==
    /\ pc = "new"
    /\ UNCHANGED <<env, frame, calls>>
    /\ IF ~SpcOk(env.params)
       THEN /\ pc' = "dead"
            /\ obj' = obj
            /\ ret' = Raised("__init__", "AssertionError")
       ELSE LET o1 == Set(obj, "model", env.model)
                o2 == Set(o1, "device", "cpu")
                o3 == Set(o2, "params", env.params)
                o4 == Set(o3, "classes", SortedList(env.classes))
                o5 == Set(o4, "classes_dict", ClassesDict(o4["classes"]))
            IN IF env.params.lambda_ = 0
               THEN /\ pc' = "dead"
                    /\ obj' = o5
                    /\ ret' = Raised("__init__", "ZeroDivisionError")
               ELSE /\ pc' = "idle"
                    /\ obj' = Set(Set(o5, "lambda_rev", Div(1, env.params.lambda_)),
                                  "timer", "DummyTimer")
                    /\ ret' = Returned("__init__", <<>>)

-----------------------------------------------------------------------------
(* classes_to_ids and l2_loss *)

\* the conversion, were it to round down instead of toward zero
IntOfFloor(c) ==
    IF c[1] >= 0 THEN c[1] \div c[2] ELSE -((-c[1] + c[2] - 1) \div c[2])

\* int(c.item()): truncation toward zero of the tensor element c = <<num, den>>
IntOf(c) == IF c[1] >= 0 THEN c[1] \div c[2] ELSE -((-c[1]) \div c[2])

\* self.classes_dict.get(int(c.item()), ignore_index) for every c of y_class
ClassIds(o, y_class, ign) ==
    [s \in DOMAIN y_class |->
        IF IntOf(y_class[s]) \in DOMAIN o["classes_dict"]
        THEN o["classes_dict"][IntOf(y_class[s])]
        ELSE ign]

RowMax(row) == CHOOSE m \in {row[c] : c \in DOMAIN row} : \A c \in DOMAIN row : row[c] <= m

\* the per-sample loss of the cross-entropy, with max in place of log-sum-exp
Penalty(row, target) == RowMax(row) - row[target]

\* torch.nn.CrossEntropyLoss(ignore_index=ign)(pred_class, class_nos): the mean
\* of the per-sample losses over the samples whose target is not ign
CrossEntropy(pred_class, class_nos, ign) ==
    LET n == Cardinality(DOMAIN class_nos)
        kept(s) == class_nos[s] # ign
        term == [s \in 0..n - 1 |->
                    IF kept(s) THEN Penalty(pred_class[s], class_nos[s]) ELSE 0]
        one == [s \in 0..n - 1 |-> IF kept(s) THEN 1 ELSE 0]
    IN Div(SumTo(term, n), SumTo(one, n))

L2Value(o, pred_class, y_class) ==
    CrossEntropy(pred_class, ClassIds(o, y_class, ignore_index), ignore_index)

\* the rows of net_output[0] for an object with K classes
LogitRows(K) == {[c \in 0..K - 1 |-> IF c = h THEN 1 ELSE 0] : h \in 0..K - 1}

NumClasses == Len(obj["classes"])

CanCall == pc = "idle"

\* a call of classes_to_ids(y_class), with the default ignore_index
classes_to_ids_call(y_class) ==
    /\ CanCall
    /\ calls' = calls + 1
    /\ frame' = [NoFrame EXCEPT !.method = "classes_to_ids", !.y_class = y_class]
    /\ pc' = "classes_to_ids"
    /\ UNCHANGED <<env, obj, ret>>

classes_to_ids ==
    /\ pc = "classes_to_ids"
    /\ ret' = Returned("classes_to_ids", ClassIds(obj, frame.y_class, default_ignore_index))
    /\ frame' = NoFrame
    /\ pc' = "idle"
    /\ UNCHANGED <<env, obj, calls>>

\* a call of l2_loss(net_output, y_class) or of loss(net_output, y_class), which
\* begins with one: l2_loss reads net_output[0] and y_class
l2_loss_call(method, pred_class, y_class) ==
    /\ CanCall
    /\ calls' = calls + 1
    /\ frame' = [NoFrame EXCEPT !.method = method,
                                !.pred_class = pred_class,
                                !.y_class = y_class,
                                !.n = Cardinality(DOMAIN y_class)]
    /\ pc' = "l2_loss"
    /\ UNCHANGED <<env, obj, ret>>

\* the body of l2_loss; inside loss its value is the left operand of the sum
l2_loss ==
    /\ pc = "l2_loss"
    /\ obj' = Set(obj, "l2_loss_val", L2Value(obj, frame.pred_class, frame.y_class))
    /\ IF frame.method = "loss"
       THEN /\ frame' = [frame EXCEPT !.pred_class = <<>>, !.y_class = <<>>,
                                      !.lhs = obj'["l2_loss_val"]]
            /\ pc' = "loss"
            /\ UNCHANGED ret
       ELSE /\ frame' = NoFrame
            /\ pc' = "idle"
            /\ ret' = Returned("l2_loss", obj'["l2_loss_val"])
    /\ UNCHANGED <<env, calls>>

-----------------------------------------------------------------------------
(* mb_loss *)

RECURSIVE Dot(_, _)
Dot(u, v) == IF Len(u) = 0 THEN 0 ELSE Head(u) * Head(v) + Dot(Tail(u), Tail(v))

\* self.d_ij: the matrix of euclidean distances between the embeddings (the
\* 1.0e-8 under the root is below the resolution of the integer distances)
DistMatrix(pred_embeddings) ==
    LET n == Cardinality(DOMAIN pred_embeddings)
        norm == [x \in 0..n - 1 |-> Dot(pred_embeddings[x], pred_embeddings[x])]
    IN [x \in 0..n - 1 |-> [y \in 0..n - 1 |->
            Sqrt(Clamp0(norm[x] + norm[y]
                        - 2 * Dot(pred_embeddings[x], pred_embeddings[y])))]]

\* 1/prob.clamp(min=lambda_rev) = min(1/prob, 1/lambda_rev), where
\* 1/prob = exp((d - sqrt 2)^2 * dim) >= 1 is kept as its integer lower bound
\* 1 + (d - 1)^2 * dim: the draws depend on which weights are positive only
InvProb(d, dim) == 1 + (d - 1) * (d - 1) * dim

RawWeights(d, dim, lambda_rev) ==
    [x \in DOMAIN d |-> Min(InvProb(d[x], dim), lambda_rev[2] \div lambda_rev[1])]

\* the weights, were the anchor's own weight left in place
ZeroSelfSkipped(weights, i) == weights

\* weights[i] = 0
ZeroSelf(weights, i) == [weights EXCEPT ![i] = 0]

\* w[a:b], a numpy slice, clipped to the length of w
Slice(w, a, b) ==
    LET hi == Min(b, Cardinality(DOMAIN w))
    IN [p \in 1..(hi - a) |-> w[a + p - 1]]

\* np.delete(w, np.s_[a:b])
Delete(w, a, b) ==
    LET n == Cardinality(DOMAIN w)
        cut == Min(b, n) - a
    IN [p \in 1..(n - cut) |-> IF p - 1 < a THEN w[p - 1] ELSE w[p - 1 + cut]]

SeqSum(w) == SumTo([x \in 0..Len(w) - 1 |-> w[x + 1]], Len(w))

\* np.random.choice(range(lo, hi), p = w/np.sum(w)): the set of values the draw
\* can return; the empty set when numpy raises ValueError (an empty range, p of
\* another size than the range, or p = 0/0)
RandomChoice(lo, hi, w) ==
    IF hi - lo <= 0 \/ Len(w) # hi - lo \/ SeqSum(w) = 0
    THEN {}
    ELSE {lo + q - 1 : q \in {r \in 1..Len(w) : w[r] > 0}}

\* the shift, were its test k > i_start
ShiftKStrict(k, i_start, spc) == IF k > i_start THEN k + spc ELSE k

\* if k >= i_start: k += samples_per_class
ShiftK(k, i_start, spc) == IF k >= i_start THEN k + spc ELSE k

\* the positive-pair term, were it not clamped
PosTermUnclamped(alpha, beta, d) == alpha + (d - beta)

\* line 81
PosTerm(alpha, beta, d) == Clamp0(alpha + (d - beta))

\* line 87
NegTerm(alpha, beta, d) == Clamp0(alpha - (d - beta))

AddInt(r, k) == Add(r, <<k, 1>>)

DivBy(r, n) == Div(r[1], r[2] * n)

\* lines 89-98: the four counters after anchor i of block i_start..i_end-1
Counters(o, d, beta, i_start, i_end) ==
    LET n == Cardinality(DOMAIN d)
        negative == {x \in 0..n - 1 : d[x] > beta}
        positive == {x \in 0..n - 1 : d[x] <= beta}
        inside == {x \in 0..n - 1 : i_start <= x /\ x < i_end}
        outside == (0..n - 1) \ inside
        o1 == Set(o, "false_neg", AddInt(o["false_neg"], Cardinality(negative \cap inside)))
        o2 == Set(o1, "true_pos", AddInt(o["true_pos"], Cardinality(positive \cap inside)))
        o3 == Set(o2, "false_pos", AddInt(o["false_pos"], Cardinality(positive \cap outside)))
    IN Set(o3, "true_neg", AddInt(o["true_neg"], Cardinality(negative \cap outside)))

\* lines 54-68 of mb_loss, called by the user or by loss: mb_loss reads
\* net_output[1]
mb_loss(pred_embeddings) ==
    LET n == Cardinality(DOMAIN pred_embeddings)
        zero == <<0, 1>>
        o1 == Set(Set(Set(Set(obj, "true_pos", zero), "true_neg", zero),
                      "false_pos", zero), "false_neg", zero)
    IN /\ \/ /\ CanCall
             /\ calls' = calls + 1
             /\ frame' = [NoFrame EXCEPT !.method = "mb_loss", !.n = n,
                                         !.dim = Len(pred_embeddings[0])]
          \/ /\ pc = "loss"
             /\ n = frame.n
             /\ calls' = calls
             /\ frame' = [frame EXCEPT !.dim = Len(pred_embeddings[0])]
       /\ obj' = Set(o1, "d_ij", DistMatrix(pred_embeddings))
       /\ pc' = "mb_loss"
       /\ UNCHANGED <<env, ret>>

\* the locals of the pass of the inner loop for anchor frame.i
SamplesPerClass == obj["params"].samples_per_class

BlockEnd == frame.i_start + SamplesPerClass

AnchorWeights ==
    ZeroSelf(RawWeights(obj["d_ij"][frame.i], frame.dim, obj["lambda_rev"]), frame.i)

\* the values the draw of j can return (line 79)
PosPartners ==
    RandomChoice(frame.i_start, BlockEnd, Slice(AnchorWeights, frame.i_start, BlockEnd))

\* the values of k after the draw and the shift (lines 83-86)
NegPartners ==
    {ShiftK(k0, frame.i_start, SamplesPerClass) :
        k0 \in RandomChoice(0, frame.n - SamplesPerClass,
                            Delete(AnchorWeights, frame.i_start, BlockEnd))}

\* one pass of the inner loop (lines 72-98), for anchor frame.i
mb_loss_anchor ==
    /\ pc = "mb_loss"
    /\ frame.i_start < frame.n
    /\ UNCHANGED <<env, calls>>
    /\ LET alpha == obj["model"].mb_loss_alpha
           beta == obj["model"].mb_loss_beta
           i == frame.i
           d == obj["d_ij"][i]
           raise(e) == /\ pc' = "idle"
                       /\ ret' = Raised(frame.method, e)
                       /\ frame' = NoFrame
                       /\ UNCHANGED obj
       IN IF PosPartners = {} THEN raise("ValueError")
          ELSE \E j \in PosPartners :
                 IF ~(j # i) THEN raise("AssertionError")
                 ELSE IF NegPartners = {} THEN raise("ValueError")
                 ELSE \E k \in NegPartners :
                        LET loss == frame.loss + PosTerm(alpha, beta, obj["d_ij"][i][j])
                                               + NegTerm(alpha, beta, obj["d_ij"][i][k])
                            o1 == Set(obj, "mb_loss_val", Div(loss, frame.n))
                        IN /\ obj' = Counters(o1, d, beta, frame.i_start, BlockEnd)
                           /\ frame' = [frame EXCEPT
                                  !.loss = loss,
                                  !.j = j,
                                  !.k = k,
                                  !.i = i + 1,
                                  !.i_start = IF i + 1 = BlockEnd THEN BlockEnd ELSE @]
                           /\ pc' = "mb_loss"
                           /\ UNCHANGED ret

\* lines 99-103: after the loops
mb_loss_return ==
    /\ pc = "mb_loss"
    /\ frame.i_start >= frame.n
    /\ obj' = [obj EXCEPT !["true_pos"] = DivBy(@, frame.n),
                          !["true_neg"] = DivBy(@, frame.n),
                          !["false_pos"] = DivBy(@, frame.n),
                          !["false_neg"] = DivBy(@, frame.n)]
    /\ IF frame.method = "loss"
       THEN pc' = "loss_add" /\ UNCHANGED <<ret, frame>>
       ELSE /\ pc' = "idle"
            /\ ret' = Returned("mb_loss", obj["mb_loss_val"])
            /\ frame' = NoFrame
    /\ UNCHANGED <<env, calls>>

\* the sum, were the classification term left out
LossSumMbOnly(l2, mb) == mb

\* self.l2_loss(...) + self.mb_loss(...)
LossSum(l2, mb) == Add(l2, mb)

\* loss, after the return of its call of mb_loss
loss ==
    /\ pc = "loss_add"
    /\ obj' = Set(obj, "loss_val", LossSum(frame.lhs, obj["mb_loss_val"]))
    /\ ret' = Returned("loss", obj'["loss_val"])
    /\ pc' = "idle"
    /\ frame' = NoFrame
    /\ UNCHANGED <<env, calls>>

-----------------------------------------------------------------------------
(* The last_* accessors *)

\* return self.<attr>
ReturnAttr(method, attr) ==
    /\ CanCall
    /\ calls' = calls + 1
    /\ ret' = IF Has(obj, attr) THEN Returned(method, obj[attr])
              ELSE Raised(method, "AttributeError")
    /\ UNCHANGED <<env, pc, obj, frame>>

last_l2_loss == ReturnAttr("last_l2_loss", "l2_loss_val")

last_mb_loss == ReturnAttr("last_mb_loss", "mb_loss_val")

last_false_pos == ReturnAttr("last_false_pos", "false_pos")

last_false_neg == ReturnAttr("last_false_neg", "false_neg")

last_true_pos == ReturnAttr("last_true_pos", "true_pos")

\* the accessor, were it to return the other counter of negatives
last_true_neg_other == ReturnAttr("last_true_neg", "false_neg")

last_true_neg == ReturnAttr("last_true_neg", "true_neg")

-----------------------------------------------------------------------------
(* The program *)

Batch(n, V) == [0..n - 1 -> V]

\* the calls of the methods that read a batch, with batches of the given sizes
\* and labels
CallClassesToIds(Sizes, Labels) ==
    /\ CanCall
    /\ \E n \in Sizes : \E y_class \in Batch(n, Labels) :
           classes_to_ids_call(y_class)

CallL2Loss(Sizes, Labels) ==
    /\ CanCall
    /\ \E n \in Sizes :
         \E pred_class \in Batch(n, LogitRows(NumClasses)), y_class \in Batch(n, Labels) :
           l2_loss_call("l2_loss", pred_class, y_class)

CallLoss(Sizes, Labels) ==
    /\ CanCall
    /\ \E n \in Sizes :
         \E pred_class \in Batch(n, LogitRows(NumClasses)), y_class \in Batch(n, Labels) :
           l2_loss_call("loss", pred_class, y_class)

CallMbLoss(Sizes) ==
    /\ CanCall
    /\ \E n \in Sizes : \E pred_embeddings \in Batch(n, EmbVecs) :
           mb_loss(pred_embeddings)

\* the steps inside a running call
Step ==
    \/ classes_to_ids
    \/ l2_loss
    \/ /\ pc = "loss"
       /\ \E pred_embeddings \in Batch(frame.n, EmbVecs) :
              mb_loss(pred_embeddings)
    \/ mb_loss_anchor
    \/ mb_loss_return
    \/ loss

Accessor ==
    \/ last_l2_loss
    \/ last_mb_loss
    \/ last_false_pos
    \/ last_false_neg
    \/ last_true_pos
    \/ last_true_neg

\* an object and the first batch it is given
Next ==
    \/ MarginBaseLoss
    \/ calls = 0 /\ CallClassesToIds(BatchSizes, LabelVals)
    \/ calls = 0 /\ CallL2Loss(BatchSizes, LabelVals)
    \/ calls = 0 /\ CallLoss(BatchSizes, LabelVals)
    \/ calls = 0 /\ CallMbLoss(BatchSizes)
    \/ Step

Spec == Init /\ [][Next]_vars

\* an object used for several calls in a row
StepSeq ==
    \/ l2_loss
    \/ /\ pc = "loss"
       /\ \E pred_embeddings \in Batch(frame.n, EmbVecs) :
              mb_loss(pred_embeddings)
    \/ mb_loss_anchor
    \/ mb_loss_return
    \/ loss

InitSeq == InitWith(Envs(SeqModels, SeqClassSets, SeqSpcVals))

NextSeq ==
    \/ MarginBaseLoss
    \/ calls < MaxCalls /\ CallL2Loss(SeqSizes, SeqLabels)
    \/ calls < MaxCalls /\ CallLoss(SeqSizes, SeqLabels)
    \/ calls < MaxCalls /\ CallMbLoss(SeqSizes)
    \/ calls < MaxCalls /\ Accessor
    \/ StepSeq

SpecSeq == InitSeq /\ [][NextSeq]_vars

-----------------------------------------------------------------------------
(* Vocabulary of the properties, written without the operators of the model *)

Max0(x) == IF x > 0 THEN x ELSE 0

\* the zero-based position of v in the sorted list of the set S
Rank(v, S) == Cardinality({c \in S : c < v})

\* the tensor element c is one of the classes
IsMember(c, S) == c[2] = 1 /\ c[1] \in S

\* the integer part of c = <<num, den>>, rounded toward zero
TruncOf(c) ==
    CHOOSE z \in (-Abs(c[1]))..Abs(c[1]) :
        /\ Abs(z) * c[2] <= Abs(c[1])
        /\ Abs(c[1]) < (Abs(z) + 1) * c[2]
        /\ (c[1] >= 0 => z >= 0)
        /\ (c[1] <= 0 => z <= 0)

\* the class of the tensor element c, <<class>>, or << >> when c is of no known
\* class: under the reading "member" the known labels are the members of the
\* class set, under the reading "integer part" those whose integer part is one
KnownClass(reading, c) ==
    IF reading = "member"
    THEN IF IsMember(c, env.classes) THEN <<c[1]>> ELSE <<>>
    ELSE IF TruncOf(c) \in env.classes THEN <<TruncOf(c)>> ELSE <<>>

\* the ids of a label tensor
ExpectedIds(y_class, reading) ==
    [s \in DOMAIN y_class |->
        LET kc == KnownClass(reading, y_class[s])
        IN IF Len(kc) = 1 THEN Rank(kc[1], env.classes) ELSE -100]

\* the row's largest logit less the logit of the target
ExpectedPenalty(row, target) ==
    (CHOOSE m \in {row[c] : c \in DOMAIN row} : \A c \in DOMAIN row : row[c] <= m)
    - row[target]

\* the mean of the per-sample losses over the samples of known label
ExpectedL2(pred_class, y_class, reading) ==
    LET n == Cardinality(DOMAIN y_class)
        ids == ExpectedIds(y_class, reading)
        known == {s \in 0..n - 1 : ids[s] # -100}
        term == [s \in 0..n - 1 |->
                    IF s \in known THEN ExpectedPenalty(pred_class[s], ids[s]) ELSE 0]
    IN Div(SumTo(term, n), Cardinality(known))

\* the attribute each accessor returns
LastAttr ==
    [last_l2_loss |-> "l2_loss_val", last_mb_loss |-> "mb_loss_val",
     last_false_pos |-> "false_pos", last_false_neg |-> "false_neg",
     last_true_pos |-> "true_pos", last_true_neg |-> "true_neg"]

MbAttrs == {"mb_loss_val", "false_pos", "false_neg", "true_pos", "true_neg"}

\* what an accessor of attribute a returns now: <<value>>, or << >> for
\* AttributeError
Stored(a) == IF Has(obj, a) THEN <<obj[a]>> ELSE <<>>

\* the class block of anchor i
BlockOf(i) ==
    LET lo == (i \div SamplesPerClass) * SamplesPerClass
    IN lo..(lo + SamplesPerClass - 1)

-----------------------------------------------------------------------------
(* C1 *)

-----------------------------------------------------------------------------
(* C2 *)

\* C2, as claimed: the object keeps no state between calls, so that no call
\* changes the value any last_* method returns.
C2_NoPersistentState ==
    [][pc # "new" => \A m \in DOMAIN LastAttr : Stored(LastAttr[m])' = Stored(LastAttr[m])]_vars

\* C2, amended: the value l2_loss computes depends on the arguments of that call
\* only, and mb_loss starts from zero counters and a zero sum; but each last_*
\* method returns the attribute the latest l2_loss or mb_loss (called directly or
\* by loss) has stored, whatever batch that was, raises AttributeError when none
\* has stored it, and changes nothing; l2_loss_val changes in l2_loss only, the
\* attributes of mb_loss in mb_loss only.
C2_LastValuesPersist ==
    [][/\ (pc = "idle" /\ pc' = "idle" /\ calls' = calls + 1) =>
            /\ ret'.method \in DOMAIN LastAttr
            /\ obj' = obj
            /\ ret' = IF Has(obj, LastAttr[ret'.method])
                      THEN [method |-> ret'.method, status |-> "ok",
                            val |-> obj[LastAttr[ret'.method]]]
                      ELSE [method |-> ret'.method, status |-> "AttributeError",
                            val |-> <<>>]
       /\ pc = "l2_loss" =>
            /\ obj'["l2_loss_val"] =
                   ExpectedL2(frame.pred_class, frame.y_class, "integer part")
            /\ frame.method = "l2_loss" =>
                   ret' = [method |-> "l2_loss", status |-> "ok",
                           val |-> obj'["l2_loss_val"]]
       /\ pc # "l2_loss" => Stored("l2_loss_val")' = Stored("l2_loss_val")
       /\ (pc # "mb_loss" /\ pc' # "mb_loss") =>
            \A a \in MbAttrs : Stored(a)' = Stored(a)
       /\ (pc # "mb_loss" /\ pc' = "mb_loss") =>
            /\ frame'.loss = 0
            /\ frame'.i = 0
            /\ \A a \in MbAttrs \ {"mb_loss_val"} : obj'[a] = <<0, 1>>
      ]_vars

\* last_mb_loss has returned the value an earlier call of mb_loss stored
C2_Witness ==
    /\ ret.method = "last_mb_loss"
    /\ ret.status = "ok"
    /\ ret.val[1] > 0
    /\ calls = 2

-----------------------------------------------------------------------------
(* C3 *)

\* the passes of mb_loss on a batch that satisfies Pre: the loop starts at anchor
\* 0 with a zero sum, each pass adds the two terms of its anchor and goes to the
\* next index, and when no anchor is left every index has been one and the sum
\* divided by n, which is not negative, is the value returned
MbLossSums(Pre) ==
    LET alpha == obj["model"].mb_loss_alpha
        beta == obj["model"].mb_loss_beta
        d == obj["d_ij"]
        i == frame.i
    IN /\ (pc # "mb_loss" /\ pc' = "mb_loss") =>
            frame'.i = 0 /\ frame'.i_start = 0 /\ frame'.loss = 0
       /\ (pc = "mb_loss" /\ Pre) =>
            IF frame.i_start < frame.n
            THEN /\ pc' = "mb_loss"
                 /\ i < frame.n
                 /\ frame'.i = i + 1
                 /\ frame'.loss = frame.loss
                                  + Max0(alpha + (d[i][frame'.j] - beta))
                                  + Max0(alpha - (d[i][frame'.k] - beta))
                 /\ obj'["mb_loss_val"] = Div(frame'.loss, frame.n)
            ELSE /\ i = frame.n
                 /\ frame.loss >= 0
                 /\ obj["mb_loss_val"] = Div(frame.loss, frame.n)
                 /\ obj'["mb_loss_val"] = obj["mb_loss_val"]
                 /\ frame.method = "mb_loss" =>
                        ret' = [method |-> "mb_loss", status |-> "ok",
                                val |-> Div(frame.loss, frame.n)]
                 /\ frame.method = "loss" => pc' = "loss_add"

\* C3, as claimed: on every batch whose size is a multiple of samples_per_class.
C3_EveryMultiple ==
    [][MbLossSums(frame.n % SamplesPerClass = 0)]_vars

\* C3, amended: on every batch whose size is a multiple of samples_per_class and
\* holds at least two class blocks, mb_loss uses every index once as an anchor,
\* adds max(0, alpha + (d[i,j] - beta)) and max(0, alpha - (d[i,k] - beta)) for
\* it, and returns the sum of the 2n terms divided by n, which is not negative.
C3_TwoBlocks ==
    [][MbLossSums(/\ frame.n % SamplesPerClass = 0
                  /\ frame.n >= 2 * SamplesPerClass)]_vars

\* mb_loss has returned a positive value
C3_Witness ==
    /\ pc = "idle"
    /\ ret.method = "mb_loss"
    /\ ret.status = "ok"
    /\ ret.val[1] > 0

-----------------------------------------------------------------------------
(* C4 *)

\* C4: for every anchor every outcome of the draw of j lies in the anchor's class
\* block and is not the anchor, and the assertion of mb_loss never fails.
C4_PositivePartner ==
    /\ (pc = "mb_loss" /\ frame.i_start < frame.n) =>
            PosPartners \subseteq (BlockOf(frame.i) \ {frame.i})
    /\ (pc = "mb_loss" /\ frame.i > 0) =>
            /\ frame.j \in BlockOf(frame.i - 1)
            /\ frame.j # frame.i - 1
    /\ ~(ret.method \in {"mb_loss", "loss"} /\ ret.status = "AssertionError")

\* anchor 0 of a block of three has been paired with index 2
C4_Witness ==
    /\ pc = "mb_loss"
    /\ SamplesPerClass = 3
    /\ frame.i = 1
    /\ frame.j = 2

-----------------------------------------------------------------------------
(* C5 *)

\* C5: for every anchor whose negative partner is drawn, the values k can take
\* after the shift are the indices 0..n-1 outside the anchor's class block, all
\* of them and no other.
C5_NegativePartner ==
    /\ (pc = "mb_loss" /\ frame.i_start < frame.n
            /\ BlockEnd <= frame.n /\ frame.n > SamplesPerClass) =>
            NegPartners = (0..frame.n - 1) \ BlockOf(frame.i)
    /\ (pc = "mb_loss" /\ frame.i > 0) =>
            /\ 0 <= frame.k /\ frame.k < frame.n
            /\ frame.k \notin BlockOf(frame.i - 1)

\* an anchor of the second block has been paired with index 0
C5_Witness ==
    /\ pc = "mb_loss"
    /\ frame.i > SamplesPerClass
    /\ frame.k = 0

-----------------------------------------------------------------------------
(* C6 *)

\* what classes_to_ids returns and what l2_loss stores under a reading of "known
\* label": the ids are the positions in the sorted class list, -100 for the
\* others, and the samples of unknown label do not count in the
\* classification term
IdsAndL2(reading) ==
    /\ pc = "classes_to_ids" =>
            /\ ret'.method = "classes_to_ids"
            /\ ret'.val = ExpectedIds(frame.y_class, reading)
            /\ \A s \in DOMAIN frame.y_class :
                    ret'.val[s] = -100 \/ ret'.val[s] \in 0..Cardinality(env.classes) - 1
            /\ \A s, t \in DOMAIN frame.y_class :
                    LET cs == KnownClass(reading, frame.y_class[s])
                        ct == KnownClass(reading, frame.y_class[t])
                    IN (Len(cs) = 1 /\ Len(ct) = 1 /\ cs[1] < ct[1]) =>
                            ret'.val[s] < ret'.val[t]
    /\ pc = "l2_loss" =>
            obj'["l2_loss_val"] = ExpectedL2(frame.pred_class, frame.y_class, reading)

\* C6, as claimed: the known labels are the members of the class set.
C6_MembersOnly == [][IdsAndL2("member")]_vars

\* C6, amended: classes_to_ids maps every label whose integer part int(label)
\* (rounded toward zero) is a member of the class set to the position of that
\* member in the sorted class list, and every other label to ignore_index
\* (-100); l2_loss leaves the samples mapped to ignore_index out of the
\* classification term.
C6_IntegerPart == [][IdsAndL2("integer part")]_vars

\* classes_to_ids has returned a known and an unknown id
C6_Witness ==
    /\ ret.method = "classes_to_ids"
    /\ \E s, t \in DOMAIN ret.val : ret.val[s] = -100 /\ ret.val[t] = 1

-----------------------------------------------------------------------------
(* C7 *)

\* C7: with samples_per_class < 2 the constructor raises AssertionError and has
\* set no attribute; every constructed object has samples_per_class >= 2.
C7_ConstructorAsserts ==
    /\ (pc # "new" /\ env.params.samples_per_class < 2) =>
            /\ pc = "dead"
            /\ ret = [method |-> "__init__", status |-> "AssertionError", val |-> <<>>]
            /\ DOMAIN obj = {}
    /\ pc \notin {"new", "dead"} =>
            /\ Has(obj, "params")
            /\ obj["params"].samples_per_class >= 2

\* the constructor has refused samples_per_class = 1
C7_Witness ==
    /\ pc = "dead"
    /\ env.params.samples_per_class = 1
    /\ ret.status = "AssertionError"

====
